---- MODULE Spec2Model ----
(***************************************************************************)
(* mcp-devops-server: the hand-rolled JSON-RPC server of                   *)
(* playwright-mcp/index.js (class SimpleMCPServer) and the tool handlers   *)
(* of playwright-mcp-server/index.js.                                      *)
(*                                                                         *)
(* Text is a sequence of tokens.  A JSON message written by the client is  *)
(* two tokens (its first and its second half, so that a chunk boundary can *)
(* fall inside it) followed by a newline token.  Strings built by the      *)
(* server (template literals, +=) are sequences of string pieces, and      *)
(* concatenation is \o.                                                    *)
(***************************************************************************)
EXTENDS Integers, Sequences, FiniteSets, TLC

\* ------------------------------------------------------------------ bounds
\* messages the client writes to the server's stdin
MaxMsgs == 2
\* 'data' events of one child's stdout, and of its stderr
MaxData == 1

\* ------------------------------------------------------------- JS values
\* an optional member: <<>> is undefined (absent), <<v>> is the value v
Undefined == <<>>
Some(v) == <<v>>
\* a string member that is undefined
NoStr == "<undefined>"

NL == [t |-> "nl"]
WS == [t |-> "ws"]
Garbage == [t |-> "garbage"]
HeadOf(m) == [t |-> "head", msg |-> m]
TailOf(m) == [t |-> "tail", msg |-> m]

\* a JSON value the client serialises: an object (with or without id,
\* method, params, params.name) or the value null
JsonObject(id, method, hasParams, name) ==
    [type |-> "object", id |-> id, method |-> method,
     hasParams |-> hasParams, name |-> name]
JsonNull == [type |-> "null", id |-> Undefined, method |-> NoStr,
             hasParams |-> FALSE, name |-> NoStr]

\* the units a client writes
Kinds == {"initialize", "tools/list", "call_ui", "call_a11y", "call_unknown",
          "call_noparams", "call_noname", "null",
          "other", "notification", "garbage"}

\* MCPClient.initialize / listTools / callTool build the message; the id is
\* the client's counter
ClientMessage(kind, n) ==
    CASE kind = "initialize"    -> JsonObject(Some(n), "initialize", TRUE, NoStr)
      [] kind = "tools/list"    -> JsonObject(Some(n), "tools/list", TRUE, NoStr)
      [] kind = "call_ui"       -> JsonObject(Some(n), "tools/call", TRUE, "run_ui_tests")
      [] kind = "call_a11y"     -> JsonObject(Some(n), "tools/call", TRUE, "run_accessibility_tests")
      [] kind = "call_unknown"  -> JsonObject(Some(n), "tools/call", TRUE, "nonexistent_tool")
      [] kind = "call_noparams" -> JsonObject(Some(n), "tools/call", FALSE, NoStr)
      [] kind = "call_noname"   -> JsonObject(Some(n), "tools/call", TRUE, NoStr)
      [] kind = "other"         -> JsonObject(Some(n), "resources/list", TRUE, NoStr)
      [] kind = "notification"  -> JsonObject(Undefined, "notifications/initialized", FALSE, NoStr)
      [] OTHER                  -> JsonNull

\* JSON.stringify(message) + "\n" as written to the server's stdin; a unit
\* that is not JSON and a whitespace-only line are written as they are
WireText(kind, n) ==
    CASE kind = "garbage" -> <<Garbage, NL>>
      [] kind = "blank"   -> <<WS, NL>>
      [] OTHER -> <<HeadOf(ClientMessage(kind, n)), TailOf(ClientMessage(kind, n)), NL>>

VARIABLES
    requireDefined,      \* whether `require` exists in the module scope
    tools,               \* this.tools
    pipe,                \* text written by the client, not yet read
    nextId,              \* MCPClient.messageId
    delivered,           \* all text the 'data' events have carried so far
    handlers,            \* one record per 'data' event: the async listener
    procs,               \* one record per spawned child process
    stdout,              \* the lines written to process.stdout
    dispatched,          \* the lines handed to processMessage, in order
    alive,               \* the server process is running
    program,             \* which of the two servers was started
    inv                  \* playwright-mcp-server: the tool invocation under way

vars == <<requireDefined, tools, pipe, nextId, delivered,
          handlers, procs, stdout, dispatched, alive, program, inv>>

\* ------------------------------------------------------------ the framer
\* data.toString().split("\n"): the pieces between newlines; a text that
\* ends with a newline yields a last empty piece
RECURSIVE Split(_)
Split(text) ==
    IF text = <<>> THEN << <<>> >>
    ELSE LET rest == Split(Tail(text))
         IN  IF Head(text).t = "nl"
             THEN << <<>> >> \o rest
             ELSE << <<Head(text)>> \o Head(rest) >> \o Tail(rest)

RECURSIVE TrimStart(_)
TrimStart(line) ==
    IF line # <<>> /\ Head(line).t = "ws" THEN TrimStart(Tail(line)) ELSE line

RECURSIVE TrimEnd(_)
TrimEnd(line) ==
    IF line # <<>> /\ line[Len(line)].t = "ws"
    THEN TrimEnd(SubSeq(line, 1, Len(line) - 1))
    ELSE line

\* line.trim(): the empty string is falsy
Trim(line) == TrimEnd(TrimStart(line))

\* JSON.parse(message): the two halves of one message, in order, are that
\* message; a half alone, halves of different messages and text that is no
\* JSON throw SyntaxError
JSONparse(message) ==
    LET s == Trim(message)
    IN  IF /\ Len(s) = 2
           /\ s[1].t = "head"
           /\ s[2].t = "tail"
           /\ s[1].msg = s[2].msg
        THEN [ok |-> TRUE, value |-> s[1].msg]
        ELSE [ok |-> FALSE, value |-> JsonNull]

\* ---------------------------------------------------------- the registry
\* constructor: this.tools
ToolsInit ==
    << [name |-> "run_ui_tests",
        description |-> "Run all Playwright UI tests with list reporter"],
       [name |-> "run_accessibility_tests",
        description |-> "Run only accessibility tests with JSON reporter"] >>

\* ----------------------------------------------------- the command runner
\* a || b on strings
OrElse(a, b) == IF a # <<>> THEN a ELSE b

\* the states of PROJECT_DIR on disk
FsStates == {"dir", "file", "missing"}

\* validateProjectDir without its two checks of the path
validateProjectDir_unchecked(hasRequire, fs) ==
    IF ~hasRequire
    THEN [threw |-> TRUE, message |-> <<"require is not defined">>]
    ELSE [threw |-> FALSE, message |-> <<>>]

\* validateProjectDir: returns, or throws
validateProjectDir(hasRequire, fs) ==
    IF ~hasRequire
    THEN [threw |-> TRUE, message |-> <<"require is not defined">>]
    ELSE IF fs = "missing"
    THEN [threw |-> TRUE,
          message |-> <<"Project directory does not exist: ", "projectDir">>]
    ELSE IF fs = "file"
    THEN [threw |-> TRUE, message |-> <<"Path is not a directory: ", "projectDir">>]
    ELSE [threw |-> FALSE, message |-> <<>>]

\* how the promise of runPlaywrightTests settles
Resolved(output) == [state |-> "resolved", output |-> output, message |-> <<>>]
Rejected(message) == [state |-> "rejected", output |-> <<>>, message |-> message]

\* a close listener that resolves with the fixed message whatever was read
closeHandler_fixedMessage(code, output, errorOutput) ==
    IF code = 0
    THEN Resolved(<<"Tests completed successfully">>)
    ELSE Rejected(<<"Playwright tests failed with code ", ToString(code), ":\n">>
                  \o OrElse(errorOutput, output))

\* a close listener that settles without what the command has written
closeHandler_dropsOutput(code, output, errorOutput) ==
    IF code = 0
    THEN Resolved(<<"Tests completed successfully">>)
    ELSE Rejected(<<"Playwright tests failed with code ", ToString(code), ":\n">>)

\* child.on("close", (code) => ...)
closeHandler(code, output, errorOutput) ==
    IF code = 0
    THEN Resolved(OrElse(output, <<"Tests completed successfully">>))
    ELSE Rejected(<<"Playwright tests failed with code ", ToString(code), ":\n">>
                  \o OrElse(errorOutput, output))

\* child.on("error", (error) => ...)
errorHandler(errorMessage) ==
    Rejected(<<"Failed to run Playwright tests: ">> \o errorMessage)

\* the message of the error a failed spawn reports
SpawnErrorMessage == <<"spawn npx ENOENT">>

\* -------------------------------------------------------- handleToolCall
TextPayload(text, isError) ==
    [content |-> << [type |-> "text", text |-> text] >>, isError |-> isError]

RegisteredNames == {"run_ui_tests", "run_accessibility_tests"}

\* handleToolCall with catch blocks that do not set isError
handleToolCall_noFlag(name, settled) ==
    IF name = "run_ui_tests"
    THEN IF settled.state = "resolved"
         THEN TextPayload(<<"UI Tests completed!\n\n">> \o settled.output, FALSE)
         ELSE TextPayload(<<"Error running UI tests: ">> \o settled.message, FALSE)
    ELSE IF settled.state = "resolved"
         THEN TextPayload(<<"Accessibility Tests completed!\n\n">> \o settled.output, FALSE)
         ELSE TextPayload(<<"Error running accessibility tests: ">> \o settled.message, FALSE)

\* the try/catch around await this.runPlaywrightTests(...) of a tool the
\* function knows; isError = FALSE stands for "isError is not set"
handleToolCall(name, settled) ==
    IF name = "run_ui_tests"
    THEN IF settled.state = "resolved"
         THEN TextPayload(<<"UI Tests completed!\n\n">> \o settled.output, FALSE)
         ELSE TextPayload(<<"Error running UI tests: ">> \o settled.message, TRUE)
    ELSE IF settled.state = "resolved"
         THEN TextPayload(<<"Accessibility Tests completed!\n\n">> \o settled.output, FALSE)
         ELSE TextPayload(<<"Error running accessibility tests: ">> \o settled.message, TRUE)

\* -------------------------------------------------------- processMessage
Response(id, result, error) ==
    [jsonrpc |-> "2.0", id |-> id, result |-> result, error |-> error]

NoResponse == Response(Undefined, Undefined, Undefined)

\* what processMessage comes to before its first suspension: it returns
\* `response`, its promise is rejected with `reason`, or a child has been
\* spawned and is awaited; `thrown` is the error thrown on the way, if any,
\* and `fs` the state of the project directory validateProjectDir found
Returns(response, thrown, fs) ==
    [k |-> "return", response |-> response, thrown |-> thrown, reason |-> <<>>,
     fs |-> fs]
Rejects(thrown, reason) ==
    [k |-> "reject", response |-> NoResponse, thrown |-> thrown, reason |-> reason,
     fs |-> NoStr]
Spawns(fs) ==
    [k |-> "spawn", response |-> NoResponse, thrown |-> <<>>, reason |-> <<>>,
     fs |-> fs]

\* an initialize branch that answers with an error object
InitializeResponse_error(id) ==
    Response(id, Undefined, Some([code |-> -32603, message |-> "Internal error"]))

\* if (parsed.method === "initialize") return {...}
InitializeResponse(id) ==
    Response(id,
             Some([protocolVersion |-> "2024-11-05",
                   capabilities |-> "tools",
                   serverInfo |-> [name |-> "playwright-mcp-server",
                                   version |-> "1.0.0"]]),
             Undefined)

\* if (parsed.method === "tools/list") return {...}
ToolsListResponse(id, registry) == Response(id, Some([tools |-> registry]), Undefined)

\* the return statement after await this.handleToolCall(...)
ToolCallResponse(id, payload) == Response(id, Some(payload), Undefined)

\* a fallthrough that answers without the request's id
MethodNotFound_noId(id) ==
    Response(Undefined, Undefined,
             Some([code |-> -32601, message |-> "Method not found"]))

\* the return statement no method matched
MethodNotFound(id) ==
    Response(id, Undefined, Some([code |-> -32601, message |-> "Method not found"]))

ReferenceError == <<"ReferenceError: parsed is not defined">>

\* catch (error) { return { jsonrpc, id: parsed?.id, error: {-32700} } }:
\* `parsed` is a const of the try block and is not in scope in the catch
\* block, so evaluating parsed?.id throws ReferenceError and the promise of
\* processMessage is rejected
catchClause(thrown) == Rejects(thrown, ReferenceError)

\* processMessage up to its first suspension
processMessage(message, registry, hasRequire, fs) ==
    LET p == JSONparse(message)
        parsed == p.value
    IN  IF ~p.ok THEN catchClause(<<"SyntaxError">>)
        ELSE IF parsed.type = "null" THEN catchClause(<<"TypeError">>)
        ELSE IF parsed.method = "initialize" THEN Returns(InitializeResponse(parsed.id), <<>>, NoStr)
        ELSE IF parsed.method = "tools/list"
        THEN Returns(ToolsListResponse(parsed.id, registry), <<>>, NoStr)
        ELSE IF parsed.method = "tools/call"
        THEN IF ~parsed.hasParams THEN catchClause(<<"TypeError">>)
             ELSE IF parsed.name \notin RegisteredNames
             THEN catchClause(<<"Unknown tool: ", parsed.name>>)
             ELSE LET v == validateProjectDir(hasRequire, fs)
                  IN  IF v.threw
                      THEN Returns(ToolCallResponse(parsed.id,
                                     handleToolCall(parsed.name, Rejected(v.message))),
                                   v.message, fs)
                      ELSE Spawns(fs)
        ELSE Returns(MethodNotFound(parsed.id), <<>>, NoStr)

\* JSON.stringify(response) + "\n": members whose value is undefined are
\* left out of the written object
JSONstringify(response) ==
    [members |-> {"jsonrpc"}
                 \cup (IF response.id # Undefined THEN {"id"} ELSE {})
                 \cup (IF response.result # Undefined THEN {"result"} ELSE {})
                 \cup (IF response.error # Undefined THEN {"error"} ELSE {}),
     id |-> response.id, result |-> response.result, error |-> response.error]

\* a response written by two calls, the text of the object and then the
\* newline, neither of which is a whole line
stdoutWrite_twoCalls(out, response) ==
    out \o << [members |-> {}, id |-> response.id, result |-> Undefined,
               error |-> Undefined, part |-> "object"],
              [members |-> {}, id |-> Undefined, result |-> Undefined,
               error |-> Undefined, part |-> "newline"] >>

\* process.stdout.write(JSON.stringify(response) + "\n"): one call that
\* carries the whole line; `out` is what has been written so far
stdoutWrite(out, response) == Append(out, JSONstringify(response))

\* ------------------------------------------------- the stdin data handler
\* the async listener of one 'data' event: the lines it has not started
\* yet, where it stands, and the child it awaits
Handler(lines) == [lines |-> lines, state |-> "running", proc |-> 0]

Pending == [state |-> "pending", output |-> <<>>, message |-> <<>>]

\* a child process as spawn() returns it, with the listeners' variables
\* output and errorOutput, the promise of runPlaywrightTests, and the
\* dispatched line and the listener that await it
Child(hid, disp, parsed) ==
    [handler |-> hid, disp |-> disp, id |-> parsed.id, tool |-> parsed.name,
     output |-> <<>>, errorOutput |-> <<>>,
     closed |-> FALSE, errored |-> FALSE, code |-> Undefined, settled |-> Pending]

\* one call of processMessage: its line, how it ended, the stdout line
\* written for it (0: none), the error thrown in it, the reason its promise
\* was rejected with and the project directory as validateProjectDir found it
Dispatch(line, status, resp, r) ==
    [line |-> line, status |-> status, resp |-> resp,
     thrown |-> r.thrown, reason |-> r.reason, fs |-> r.fs]

\* a listener that returns without starting on its lines
RunLoop_notStarted(s, hid, hasRequire, fs) == s

\* for (const line of lines) { if (line.trim()) { response = await
\* this.processMessage(line); if (response) stdout.write(...) } } from the
\* handler's next line up to the next await of a child, the end of the
\* loop, or a rejection of processMessage, which rejects the listener
RECURSIVE RunLoop(_, _, _, _)
RunLoop(s, hid, hasRequire, fs) ==
    LET h == s.handlers[hid]
    IN  IF h.lines = <<>>
        THEN [s EXCEPT !.handlers[hid].state = "done"]
        ELSE LET line == Head(h.lines)
                 s1 == [s EXCEPT !.handlers[hid].lines = Tail(h.lines)]
             IN  IF Trim(line) = <<>>
                 THEN RunLoop(s1, hid, hasRequire, fs)
                 ELSE LET r == processMessage(line, s.tools, hasRequire, fs)
                          d == Len(s.dispatched) + 1
                      IN  CASE r.k = "return" ->
                                 RunLoop([s1 EXCEPT
                                     !.stdout = stdoutWrite(@, r.response),
                                     !.dispatched = Append(@,
                                         Dispatch(line, "returned", Len(s.stdout) + 1, r))],
                                   hid, hasRequire, fs)
                            [] r.k = "reject" ->
                                 [s1 EXCEPT
                                     !.handlers[hid].state = "rejected",
                                     !.dispatched = Append(@, Dispatch(line, "rejected", 0, r))]
                            [] OTHER ->
                                 [s1 EXCEPT
                                     !.handlers[hid].state = "awaiting",
                                     !.handlers[hid].proc = Len(s.procs) + 1,
                                     !.procs = Append(@, Child(hid, d, JSONparse(line).value)),
                                     !.dispatched = Append(@, Dispatch(line, "pending", 0, r))]

\* the promise settles and nothing is written for it in that turn
Resume_deferred(s, p, settled, hasRequire, fs) ==
    [s EXCEPT !.procs[p].settled = settled]

\* the promise of runPlaywrightTests settles: handleToolCall returns its
\* payload, processMessage its response, the listener writes it and goes
\* on with its loop
Resume(s, p, settled, hasRequire, fs) ==
    LET c == s.procs[p]
        response == ToolCallResponse(c.id, handleToolCall(c.tool, settled))
    IN  RunLoop([s EXCEPT
                    !.procs[p].settled = settled,
                    !.handlers[c.handler].state = "running",
                    !.handlers[c.handler].proc = 0,
                    !.dispatched[c.disp].status = "returned",
                    !.dispatched[c.disp].resp = Len(s.stdout) + 1,
                    !.stdout = stdoutWrite(@, response)],
                c.handler, hasRequire, fs)

Server ==
    [tools |-> tools, handlers |-> handlers, procs |-> procs,
     stdout |-> stdout, dispatched |-> dispatched]

\* the state after one turn of the event loop.  A listener left rejected is
\* an unhandled rejection: nothing awaits the promise the async listener
\* returns to the emitter, and Node (18+, started as `node index.js`) ends
\* the process on an unhandled rejection
Commit(s, hid) ==
    /\ handlers' = s.handlers
    /\ procs' = s.procs
    /\ stdout' = s.stdout
    /\ dispatched' = s.dispatched
    /\ alive' = (s.handlers[hid].state # "rejected")

Simple == "playwright-mcp"
Sdk == "playwright-mcp-server"

\* MCPClient.sendMessage: this.server.stdin.write(jsonMessage + "\n")
ClientSend(kind) ==
    /\ program = Simple
    /\ alive
    /\ nextId <= MaxMsgs
    /\ pipe' = pipe \o WireText(kind, nextId)
    /\ nextId' = nextId + 1
    /\ UNCHANGED <<requireDefined, tools, delivered, handlers, procs, stdout,
                   dispatched, alive, program, inv>>

\* process.stdin.on("data", async (data) => ...): the stream hands over the
\* first n tokens of what the client has written
StdinData(n, fs) ==
    /\ program = Simple
    /\ alive
    /\ n \in 1..Len(pipe)
    /\ LET data == SubSeq(pipe, 1, n)
           hid == Len(handlers) + 1
           s == [Server EXCEPT !.handlers = Append(@, Handler(Split(data)))]
       IN  /\ pipe' = SubSeq(pipe, n + 1, Len(pipe))
           /\ delivered' = delivered \o data
           /\ Commit(RunLoop(s, hid, requireDefined, fs), hid)
    /\ UNCHANGED <<requireDefined, tools, nextId, program, inv>>

\* child.stdout.on("data", ...): output += data.toString()
ChildStdout(p) ==
    /\ alive
    /\ p \in DOMAIN procs
    /\ ~procs[p].closed /\ ~procs[p].errored
    /\ Len(procs[p].output) < MaxData
    /\ procs' = [procs EXCEPT ![p].output = @ \o <<"out">>]
    /\ UNCHANGED <<requireDefined, tools, pipe, nextId, delivered, handlers,
                   stdout, dispatched, alive, program, inv>>

\* child.stderr.on("data", ...): errorOutput += data.toString()
ChildStderr(p) ==
    /\ alive
    /\ p \in DOMAIN procs
    /\ ~procs[p].closed /\ ~procs[p].errored
    /\ Len(procs[p].errorOutput) < MaxData
    /\ procs' = [procs EXCEPT ![p].errorOutput = @ \o <<"err">>]
    /\ UNCHANGED <<requireDefined, tools, pipe, nextId, delivered, handlers,
                   stdout, dispatched, alive, program, inv>>

\* the exit statuses of a command
ExitCodes == {0, 1}

\* a close event that settles the invocation whether or not the error
\* event has settled it before
ChildClose_settlesAgain(p, code, fs) ==
    /\ alive
    /\ p \in DOMAIN procs
    /\ ~procs[p].closed
    /\ procs[p].errored => code # 0
    /\ LET c == procs[p]
           s == [Server EXCEPT !.procs[p].closed = TRUE, !.procs[p].code = Some(code)]
       IN  Commit(Resume(s, p, closeHandler(code, c.output, c.errorOutput),
                         requireDefined, fs), c.handler)
    /\ UNCHANGED <<requireDefined, tools, pipe, nextId, delivered, program, inv>>

\* child.on("close", (code) => ...): resolve or reject; a promise that has
\* settled stays as it is
ChildClose(p, code, fs) ==
    /\ alive
    /\ p \in DOMAIN procs
    /\ ~procs[p].closed
    /\ procs[p].errored => code # 0
    /\ LET c == procs[p]
           s == [Server EXCEPT !.procs[p].closed = TRUE, !.procs[p].code = Some(code)]
       IN  IF c.settled.state = "pending"
           THEN Commit(Resume(s, p, closeHandler(code, c.output, c.errorOutput),
                              requireDefined, fs), c.handler)
           ELSE Commit(s, c.handler)
    /\ UNCHANGED <<requireDefined, tools, pipe, nextId, delivered, program, inv>>

\* child.on("error", (error) => ...): the command could not be launched
ChildError(p, fs) ==
    /\ alive
    /\ p \in DOMAIN procs
    /\ ~procs[p].closed /\ ~procs[p].errored
    /\ procs[p].output = <<>> /\ procs[p].errorOutput = <<>>
    /\ LET c == procs[p]
           s == [Server EXCEPT !.procs[p].errored = TRUE]
       IN  Commit(Resume(s, p, errorHandler(SpawnErrorMessage), requireDefined, fs),
                  c.handler)
    /\ UNCHANGED <<requireDefined, tools, pipe, nextId, delivered, program, inv>>

\* ------------------------------------------ playwright-mcp-server/index.js
\* thirteen registrations of which two carry the same name
SdkTools_duplicate ==
    << "run_ui_tests", "run_accessibility_test", "security_audit",
       "github_workflow_validate", "code_quality_check", "performance_test",
       "docker_build_test", "rust_check", "rust_test", "rust_fmt_check",
       "tauri_build", "tauri_dev", "rust_check" >>

\* server.registerTool(name, ...), in the order of registration
SdkTools ==
    << "run_ui_tests", "run_accessibility_test", "security_audit",
       "github_workflow_validate", "code_quality_check", "performance_test",
       "docker_build_test", "rust_check", "rust_test", "rust_fmt_check",
       "tauri_build", "tauri_dev", "typescript_check" >>

SdkToolNames == {SdkTools[i] : i \in DOMAIN SdkTools}

\* the registry the registerTool calls build, one descriptor per call
SdkRegistry == [i \in DOMAIN SdkTools |-> [name |-> SdkTools[i]]]

\* console.log(text): one line on process.stdout that is no JSON
ConsoleLog(text) ==
    [members |-> {}, id |-> Undefined, result |-> Undefined, error |-> Undefined,
     text |-> text]

\* the err argument of exec's callback: null when the command exited with
\* status 0, else an Error whose code is the exit status; a command that
\* could not be launched has no exit status (-2 here: err.code is then a
\* string such as 'ENOENT')
ExecOutcomes == {0, 1, 2, -2}
ExecError(outcome) == IF outcome = 0 THEN Undefined ELSE Some(outcome)

\* a general policy in place of the handlers' conditions: exit status 1
\* is no failure for any tool
SdkFails_exitOneSucceeds(tool, err) == err # Undefined /\ err[1] # 1

\* the condition of each handler's reject branch
SdkFails(tool, err) ==
    IF tool = "security_audit"
    THEN err # Undefined /\ err[1] # 1
    ELSE err # Undefined

\* the text of the object each handler rejects with
SdkFailureText(tool, out, errOut) ==
    CASE tool = "run_ui_tests"             -> <<"Error: ">> \o errOut
      [] tool = "run_accessibility_test"   -> <<"Error: ">> \o errOut
      [] tool = "security_audit"           -> <<"Audit failed: ">> \o errOut
      [] tool = "github_workflow_validate" -> <<"Workflow validation failed: ">> \o errOut
      [] tool = "code_quality_check"       -> <<"ESLint found issues:\n">> \o out
      [] tool = "performance_test"         -> <<"Performance test failed: ">> \o errOut
      [] tool = "docker_build_test"        -> <<"Docker build failed: ">> \o errOut
      [] tool = "rust_check"               -> <<"Rust check failed:\n">> \o errOut
      [] tool = "rust_test"                -> <<"Rust tests failed:\n">> \o errOut
      [] tool = "rust_fmt_check"           -> <<"Rust formatting check failed:\n">> \o errOut
      [] tool = "tauri_build"              -> <<"Tauri build failed:\n">> \o errOut
      [] tool = "tauri_dev"                -> <<"Tauri dev server failed:\n">> \o errOut
      [] OTHER                             -> <<"TypeScript check failed:\n">> \o errOut

\* the text of the object each handler resolves with
SdkSuccessText(tool, out) ==
    CASE tool = "run_ui_tests"             -> out
      [] tool = "run_accessibility_test"   -> out
      [] tool = "security_audit"           ->
             OrElse(out, <<"No security vulnerabilities found">>)
      [] tool = "github_workflow_validate" -> <<"Workflow validation successful:\n">> \o out
      [] tool = "code_quality_check"       -> <<"Code quality check passed - no issues found">>
      [] tool = "performance_test"         -> <<"Performance test completed:\n">> \o out
      [] tool = "docker_build_test"        -> <<"Docker build successful:\n">> \o out
      [] tool = "rust_check"               -> <<"Rust check passed:\n">> \o out
      [] tool = "rust_test"                -> <<"Rust tests passed:\n">> \o out
      [] tool = "rust_fmt_check"           -> <<"Rust code is properly formatted">>
      [] tool = "tauri_build"              -> <<"Tauri build successful:\n">> \o out
      [] tool = "tauri_dev"                -> <<"Tauri dev server started:\n">> \o out
      [] OTHER                             -> <<"TypeScript type checking passed">>

\* how a handler's promise settles: resolve(value) or reject(value)
Settle(state, payload) == [state |-> state, payload |-> payload]

\* exec(command, (err, stdout, stderr) => { if (...) reject({content})
\* else resolve({content}) }): no handler sets isError
execCallback(tool, err, out, errOut) ==
    IF SdkFails(tool, err)
    THEN Settle("rejected", TextPayload(SdkFailureText(tool, out, errOut), FALSE))
    ELSE Settle("resolved", TextPayload(SdkSuccessText(tool, out), FALSE))

\* a handler from its call to its exec: performance_test rejects without
\* running anything when args.url is missing
SdkLaunches(tool, hasUrl) == ~(tool = "performance_test" /\ ~hasUrl)

NoPayload == TextPayload(<<>>, FALSE)

\* one invocation of a handler: the commands it has run, the outcome exec
\* reported and how the promise settled
Invocation(tool, hasUrl) ==
    [tool |-> tool, hasUrl |-> hasUrl,
     launched |-> IF SdkLaunches(tool, hasUrl) THEN 1 ELSE 0,
     phase |-> IF SdkLaunches(tool, hasUrl) THEN "running" ELSE "settled",
     outcome |-> 0, out |-> <<>>, errOut |-> <<>>,
     settled |-> IF SdkLaunches(tool, hasUrl)
                 THEN Settle("pending", NoPayload)
                 ELSE Settle("rejected",
                        TextPayload(<<"URL is required for performance testing">>, FALSE))]

NoInv ==
    [tool |-> NoStr, hasUrl |-> FALSE, launched |-> 0, phase |-> "idle",
     outcome |-> 0, out |-> <<>>, errOut |-> <<>>, settled |-> Settle("pending", NoPayload)]

\* what a command may have written when it ends
Texts(piece) == {[i \in 1..n |-> piece] : n \in 0..MaxData}

\* main(): await server.connect(transport); console.log(...)
SdkMain ==
    /\ program = Sdk
    /\ alive
    /\ stdout = <<>>
    /\ stdout' = <<ConsoleLog("MCP server is running...")>>
    /\ UNCHANGED <<requireDefined, tools, pipe, nextId, delivered, handlers, procs,
                   dispatched, alive, program, inv>>

\* the client calls a tool, which the connected server hands to its
\* handler: the handler runs up to its exec
SdkCallTool(tool, hasUrl) ==
    /\ program = Sdk
    /\ alive
    /\ stdout # <<>>
    /\ inv.phase # "running"
    /\ nextId <= MaxMsgs
    /\ nextId' = nextId + 1
    /\ inv' = Invocation(tool, hasUrl)
    /\ UNCHANGED <<requireDefined, tools, pipe, delivered, handlers, procs,
                   stdout, dispatched, alive, program>>

\* the command ends and exec calls back
SdkExecCallback(outcome, out, errOut) ==
    /\ program = Sdk
    /\ alive
    /\ inv.phase = "running"
    /\ inv' = [inv EXCEPT !.phase = "settled", !.outcome = outcome,
                          !.out = out, !.errOut = errOut,
                          !.settled = execCallback(inv.tool, ExecError(outcome), out, errOut)]
    /\ UNCHANGED <<requireDefined, tools, pipe, nextId, delivered, handlers,
                   procs, stdout, dispatched, alive, program>>

\* ------------------------------------------------------- the state machine
Init ==
    /\ program \in {Simple, Sdk}
    /\ requireDefined \in (IF program = Simple THEN BOOLEAN ELSE {FALSE})
    /\ tools = IF program = Simple THEN ToolsInit ELSE SdkRegistry
    /\ pipe = <<>>
    /\ nextId = 1
    /\ delivered = <<>>
    /\ handlers = <<>>
    /\ procs = <<>>
    /\ stdout = <<>>
    /\ dispatched = <<>>
    /\ alive = TRUE
    /\ inv = NoInv

Next ==
    \/ \E kind \in Kinds : ClientSend(kind)
    \/ \E n \in 1..(3 * MaxMsgs), fs \in FsStates : StdinData(n, fs)
    \/ \E p \in 1..MaxMsgs : ChildStdout(p)
    \/ \E p \in 1..MaxMsgs : ChildStderr(p)
    \/ \E p \in 1..MaxMsgs, code \in ExitCodes, fs \in FsStates : ChildClose(p, code, fs)
    \/ \E p \in 1..MaxMsgs, fs \in FsStates : ChildError(p, fs)
    \/ SdkMain
    \/ \E tool \in SdkToolNames, hasUrl \in BOOLEAN : SdkCallTool(tool, hasUrl)
    \/ \E outcome \in ExecOutcomes, out \in Texts("out"), errOut \in Texts("err") :
           SdkExecCallback(outcome, out, errOut)

Spec == Init /\ [][Next]_vars

\* ------------------------------------------------------------ properties
\* the value a dispatched line parsed to, and whether it parsed
Parsed(d) == JSONparse(dispatched[d].line).value
ParsedOk(d) == JSONparse(dispatched[d].line).ok
IsObject(d) == ParsedOk(d) /\ Parsed(d).type = "object"

\* the newline-terminated, non-blank units of a text: what one chunk
\* holding the whole text is split into, less the piece after the last
\* newline
RECURSIVE NonBlank(_)
NonBlank(lines) ==
    IF lines = <<>> THEN <<>>
    ELSE IF Trim(Head(lines)) = <<>> THEN NonBlank(Tail(lines))
    ELSE <<Head(lines)>> \o NonBlank(Tail(lines))

Units(text) ==
    LET pieces == Split(text) IN NonBlank(SubSeq(pieces, 1, Len(pieces) - 1))

\* the dispatched line d is a framed unit: a whole line of the text
\* received, newline included
Framed(d) ==
    \E i \in DOMAIN Units(delivered) : Units(delivered)[i] = dispatched[d].line

\* the stdout lines that carry the id `id`
ResponsesTo(id) == {i \in DOMAIN stdout : stdout[i].id = id}

\* processMessage has come to an end for the dispatched line d
Ended(d) == dispatched[d].status # "pending"

\* the stdout line written for the dispatched line d has the error code c
AnsweredWithError(d, c) ==
    /\ dispatched[d].resp # 0
    /\ stdout[dispatched[d].resp].error # Undefined
    /\ stdout[dispatched[d].resp].error[1].code = c

\* C1: every dispatched line that parses as a request carrying an id has,
\* once processMessage has ended for it, exactly one response on stdout,
\* and that response carries the request's id, whatever the method is
C1_EveryRequestAnsweredOnce ==
    \A d \in DOMAIN dispatched :
        (Framed(d) /\ IsObject(d) /\ Parsed(d).id # Undefined /\ Ended(d)) =>
            /\ dispatched[d].resp # 0
            /\ stdout[dispatched[d].resp].id = Parsed(d).id
            /\ Cardinality(ResponsesTo(Parsed(d).id)) = 1

\* C2: a unit that is not valid JSON is answered with one error response
\* of code -32700: processMessage returns a value and the server keeps
\* running
C2_ParseErrorAnswered ==
    \A d \in DOMAIN dispatched :
        (Framed(d) /\ ~ParsedOk(d)) =>
            /\ dispatched[d].status = "returned"
            /\ AnsweredWithError(d, -32700)
            /\ alive

\* C3: a tools/call naming a tool that is not registered is answered with
\* an error response carrying the request's id; nothing escapes
\* processMessage and the server keeps running
C3_UnknownToolErrorResponse ==
    \A d \in DOMAIN dispatched :
        (/\ Framed(d)
         /\ IsObject(d)
         /\ Parsed(d).method = "tools/call"
         /\ Parsed(d).hasParams
         /\ Parsed(d).name \notin {tools[i].name : i \in DOMAIN tools}) =>
            /\ dispatched[d].status = "returned"
            /\ dispatched[d].resp # 0
            /\ stdout[dispatched[d].resp].error # Undefined
            /\ stdout[dispatched[d].resp].id = Parsed(d).id
            /\ alive

\* C4: a parsed message without an id member (a notification) has no
\* response written for it
C4_NotificationNotAnswered ==
    \A d \in DOMAIN dispatched :
        (Framed(d) /\ IsObject(d) /\ Parsed(d).id = Undefined) =>
            dispatched[d].resp = 0

DispatchedLines == [d \in DOMAIN dispatched |-> dispatched[d].line]

IsPrefix(a, b) == Len(a) <= Len(b) /\ a = SubSeq(b, 1, Len(a))

\* C5: however a text of complete newline-terminated messages is cut into
\* chunks, the lines dispatched are the newline-terminated units of the
\* text received, in their order, as when the text comes as one chunk: a
\* trailing partial unit is not dispatched before its newline arrives
C5_FramingChunkIndependent ==
    (\A i \in DOMAIN Units(delivered \o pipe) : JSONparse(Units(delivered \o pipe)[i]).ok)
        => IsPrefix(DispatchedLines, Units(delivered))

\* C6: the response to a unit that fails to parse has no id, and the
\* dispatcher does not look up an id on what failed to parse
C6_ParseFailureIdNotLookedUp ==
    \A d \in DOMAIN dispatched :
        (Framed(d) /\ ~ParsedOk(d)) =>
            /\ dispatched[d].reason # ReferenceError
            /\ dispatched[d].resp # 0 => "id" \notin stdout[dispatched[d].resp].members

IsSuffix(a, b) == Len(a) <= Len(b) /\ a = SubSeq(b, Len(b) - Len(a) + 1, Len(b))

\* the stdout line written for the dispatched line d
ResponseOf(d) == stdout[dispatched[d].resp]

\* the text of the single content block of a result payload
TextOf(payload) == payload.content[1].text

\* what the child p reported when its promise was rejected: the spawn
\* error, or what it had written to stderr (to stdout when stderr is empty)
Diagnostic(p) ==
    IF procs[p].errored THEN SpawnErrorMessage
    ELSE OrElse(procs[p].errorOutput, procs[p].output)

\* C7: when the command of a registered tool cannot be launched or exits
\* with a non-zero status, the tools/call response is a successful JSON-RPC
\* response: a result and no error member, the request's id, isError set
\* and one text block that ends with the diagnostic
C7_ToolFailureIsResult ==
    \A p \in DOMAIN procs :
        procs[p].settled.state = "rejected" =>
            LET d == procs[p].disp
            IN  /\ dispatched[d].resp # 0
                /\ ResponseOf(d).members = {"jsonrpc", "id", "result"}
                /\ ResponseOf(d).id = Parsed(d).id
                /\ ResponseOf(d).result[1].isError
                /\ Len(ResponseOf(d).result[1].content) = 1
                /\ ResponseOf(d).result[1].content[1].type = "text"
                /\ IsSuffix(Diagnostic(p), TextOf(ResponseOf(d).result[1]))
                /\ Len(TextOf(ResponseOf(d).result[1])) > Len(Diagnostic(p))

\* C7 witness: one command that could not be launched and one that wrote
\* to stderr and exited with status 1, both answered
C7_Witness ==
    \E p, q \in DOMAIN procs :
        /\ procs[p].errored /\ procs[p].settled.state = "rejected"
        /\ ~procs[q].errored /\ procs[q].code = Some(1)
        /\ procs[q].errorOutput # <<>> /\ procs[q].settled.state = "rejected"

KnownMethods == {"initialize", "tools/list", "tools/call"}

\* the child processes launched for the dispatched line d
ProcsOf(d) == {p \in DOMAIN procs : procs[p].disp = d}

\* C8: a parsed request whose method is none of initialize, tools/list,
\* tools/call is answered with the error code -32601 and the request's id,
\* and no process is launched for it
C8_UnknownMethodNotFound ==
    \A d \in DOMAIN dispatched :
        (IsObject(d) /\ Parsed(d).method \notin KnownMethods) =>
            /\ dispatched[d].status = "returned"
            /\ AnsweredWithError(d, -32601)
            /\ "result" \notin ResponseOf(d).members
            /\ ResponseOf(d).id = Parsed(d).id
            /\ ProcsOf(d) = {}

\* C8 witness: a request with an id and an unknown method has been answered
C8_Witness ==
    \E d \in DOMAIN dispatched :
        /\ IsObject(d) /\ Parsed(d).method \notin KnownMethods
        /\ Parsed(d).id # Undefined
        /\ "id" \in ResponseOf(d).members

\* the dispatched line d is a tools/call of a registered tool
IsRegisteredCall(d) ==
    /\ IsObject(d)
    /\ Parsed(d).method = "tools/call"
    /\ Parsed(d).hasParams
    /\ Parsed(d).name \in {tools[i].name : i \in DOMAIN tools}

SucceededWithOutput ==
    {p \in DOMAIN procs : procs[p].code = Some(0) /\ procs[p].output # <<>>}

InvSucceededWithOutput == inv.phase = "settled" /\ inv.launched = 1
                          /\ inv.outcome = 0 /\ inv.out # <<>>

\* C10 as claimed: a command that exits with status 0 and non-empty stdout
\* yields a non-error payload whose text equals that stdout
C10_SuccessTextEqualsStdout ==
    /\ \A p \in SucceededWithOutput :
           LET payload == ResponseOf(procs[p].disp).result[1]
           IN  ~payload.isError /\ TextOf(payload) = procs[p].output
    /\ InvSucceededWithOutput =>
           /\ inv.settled.state = "resolved"
           /\ ~inv.settled.payload.isError
           /\ TextOf(inv.settled.payload) = inv.out

\* the handlers of playwright-mcp-server that answer a success with a
\* fixed message
FixedMessageTools == {"code_quality_check", "rust_fmt_check", "typescript_check"}

\* C10 amended: a command that exits with status 0 and non-empty stdout
\* yields a non-error payload (isError not set) whose text is that stdout
\* after a heading of the tool: one piece of text in the hand-rolled
\* server, at most one in playwright-mcp-server, whose code_quality_check,
\* rust_fmt_check and typescript_check answer with a fixed message instead
C10_SuccessTextEndsWithStdout ==
    /\ \A p \in SucceededWithOutput :
           LET payload == ResponseOf(procs[p].disp).result[1]
           IN  /\ dispatched[procs[p].disp].resp # 0
               /\ "error" \notin ResponseOf(procs[p].disp).members
               /\ ~payload.isError
               /\ IsSuffix(procs[p].output, TextOf(payload))
               /\ Len(TextOf(payload)) = Len(procs[p].output) + 1
    /\ InvSucceededWithOutput =>
           /\ inv.settled.state = "resolved"
           /\ ~inv.settled.payload.isError
           /\ IF inv.tool \in FixedMessageTools
              THEN /\ Len(TextOf(inv.settled.payload)) = 1
                   /\ TextOf(inv.settled.payload)[1] \notin {"out", "err"}
              ELSE /\ IsSuffix(inv.out, TextOf(inv.settled.payload))
                   /\ Len(TextOf(inv.settled.payload)) <= Len(inv.out) + 1

\* C10 witness: a tool's command wrote to stdout and exited with status 0,
\* and the response is on stdout
C10_Witness ==
    \E p \in SucceededWithOutput : dispatched[procs[p].disp].resp # 0

\* the invocation under way has run its command and the promise has settled
InvSettledAfterExec == inv.phase = "settled" /\ inv.launched = 1

\* C11: the command of security_audit exits with status 1: the promise is
\* resolved with a payload without isError whose text is the captured
\* stdout; it exits with another non-zero status or cannot be launched:
\* the promise is rejected
C11_AuditExitOneCarriesStdout ==
    (InvSettledAfterExec /\ inv.tool = "security_audit") =>
        /\ inv.outcome = 1 =>
               /\ inv.settled.state = "resolved"
               /\ ~inv.settled.payload.isError
               /\ TextOf(inv.settled.payload) = inv.out
        /\ inv.outcome \notin {0, 1} => inv.settled.state = "rejected"

\* C12: for every tool but security_audit, of both servers, a command that
\* exits with status 1 is reported as a failure: the promise of the
\* hand-rolled server's runner is rejected and the response carries
\* isError, and the promise of a playwright-mcp-server handler is rejected
C12_ExitOneFailsButForAudit ==
    /\ \A p \in DOMAIN procs :
           procs[p].code = Some(1) =>
               /\ procs[p].settled.state = "rejected"
               /\ dispatched[procs[p].disp].resp # 0
               /\ ResponseOf(procs[p].disp).result[1].isError
    /\ (InvSettledAfterExec /\ inv.outcome = 1 /\ inv.tool # "security_audit") =>
           inv.settled.state = "rejected"

\* C12 witness: a command of a playwright-mcp-server tool other than
\* security_audit wrote to stdout and exited with status 1
C12_Witness ==
    /\ InvSettledAfterExec
    /\ inv.tool \in SdkToolNames \ {"security_audit"}
    /\ inv.outcome = 1
    /\ inv.out # <<>>

\* the commands of playwright-mcp-server that exit with a non-zero status
InvExitedNonZero == InvSettledAfterExec /\ inv.outcome \in {1, 2}

\* C13: when a command exits with a non-zero status the failure payload's
\* text ends with the accumulated stderr, and with the accumulated stdout
\* when stderr is empty; in the hand-rolled server and in every handler of
\* playwright-mcp-server but security_audit
C13_FailureTextStderrElseStdout ==
    /\ \A p \in DOMAIN procs :
           (procs[p].code # Undefined /\ procs[p].code # Some(0) /\ ~procs[p].errored) =>
               /\ dispatched[procs[p].disp].resp # 0
               /\ IsSuffix(OrElse(procs[p].errorOutput, procs[p].output),
                           TextOf(ResponseOf(procs[p].disp).result[1]))
    /\ (InvExitedNonZero /\ inv.tool # "security_audit") =>
           /\ inv.settled.state = "rejected"
           /\ IsSuffix(OrElse(inv.errOut, inv.out), TextOf(inv.settled.payload))

\* C14: no success payload has an empty text: when a command exits with
\* status 0 the text of the payload is not empty, also when the command
\* wrote nothing to stdout
C14_SuccessTextNeverEmpty ==
    /\ \A p \in DOMAIN procs :
           (procs[p].code = Some(0) /\ dispatched[procs[p].disp].resp # 0) =>
               TextOf(ResponseOf(procs[p].disp).result[1]) # <<>>
    /\ (InvSettledAfterExec /\ inv.settled.state = "resolved") =>
           TextOf(inv.settled.payload) # <<>>

\* a line of stdout is one JSON-RPC response object: the version marker
\* and exactly one of result and error
IsJsonRpcResponse(line) ==
    /\ "jsonrpc" \in line.members
    /\ ("result" \in line.members) # ("error" \in line.members)

\* C15: every line written to standard output, from startup on, is one
\* JSON-RPC response object; status text goes to standard error
C15_StdoutOnlyResponses ==
    \A i \in DOMAIN stdout : IsJsonRpcResponse(stdout[i])

\* the registry as built at startup
RegistryAtStartup == IF program = Simple THEN ToolsInit ELSE SdkRegistry

\* no listener of a 'data' event is still running or awaiting a child
Quiescent == \A h \in DOMAIN handlers : handlers[h].state \in {"done", "rejected"}

\* the text received is a tools/list request
IsToolsList(unit) ==
    /\ JSONparse(unit).ok
    /\ JSONparse(unit).value.type = "object"
    /\ JSONparse(unit).value.method = "tools/list"

\* C16: the registry is never modified, and a tools/list request with id i
\* received at any point of a session, also after a tool call or after a
\* request that failed, is answered with id i and with result.tools equal
\* to the registry built at startup: once the server has nothing left to
\* do, no framed tools/list request is without that response
C16_ToolsListAlwaysAnswered ==
    /\ tools = RegistryAtStartup
    /\ \A d \in DOMAIN dispatched :
           (IsToolsList(dispatched[d].line) /\ dispatched[d].resp # 0) =>
               /\ ResponseOf(d).id = Parsed(d).id
               /\ ResponseOf(d).result = Some([tools |-> RegistryAtStartup])
    /\ (Quiescent /\ \A d \in DOMAIN dispatched : Framed(d)) =>
           \A i \in DOMAIN Units(delivered) :
               IsToolsList(Units(delivered)[i]) =>
                   \E d \in DOMAIN dispatched :
                       /\ dispatched[d].line = Units(delivered)[i]
                       /\ dispatched[d].resp # 0

\* README, "Available Tools": the names in the first column of the tables
ReadmeTools ==
    {"run_ui_tests", "run_accessibility_test",
     "security_audit", "code_quality_check", "typescript_check",
     "github_workflow_validate", "docker_build_test", "performance_test",
     "rust_check", "rust_test", "rust_fmt_check",
     "tauri_build", "tauri_dev"}

\* C17: no two descriptors of a server's registry have the same name, and
\* the registry of playwright-mcp-server holds thirteen descriptors whose
\* names are the thirteen tools of the README
C17_ToolNamesUnique ==
    /\ \A i, j \in DOMAIN tools : tools[i].name = tools[j].name => i = j
    /\ program = Sdk =>
           /\ Len(tools) = 13
           /\ {tools[i].name : i \in DOMAIN tools} = ReadmeTools

\* C17 witness: playwright-mcp-server has run the tool registered last
C17_Witness ==
    /\ program = Sdk
    /\ inv.phase = "settled"
    /\ inv.tool = tools[Len(tools)].name
    /\ inv.tool \in ReadmeTools

\* the dispatched line d is an initialize request
IsInitialize(d) == IsObject(d) /\ Parsed(d).method = "initialize"

\* C18: an initialize request whose envelope parsed, at any point of a
\* session and also when repeated, is answered at once with a result and
\* no error, the request's id, protocolVersion, capabilities and
\* serverInfo; no process is launched for it and the registry is as it was
\* built at startup
C18_InitializeAlwaysSucceeds ==
    \A d \in DOMAIN dispatched :
        IsInitialize(d) =>
            /\ dispatched[d].status = "returned"
            /\ dispatched[d].thrown = <<>>
            /\ dispatched[d].resp # 0
            /\ "result" \in ResponseOf(d).members
            /\ "error" \notin ResponseOf(d).members
            /\ ResponseOf(d).id = Parsed(d).id
            /\ DOMAIN ResponseOf(d).result[1] =
                   {"protocolVersion", "capabilities", "serverInfo"}
            /\ ResponseOf(d).result[1].protocolVersion = "2024-11-05"
            /\ ProcsOf(d) = {}
            /\ tools = RegistryAtStartup

\* C18 witness: initialize answered, and initialize sent again with
\* another id, answered again
C18_Witness ==
    \E d, e \in DOMAIN dispatched :
        /\ d < e
        /\ IsInitialize(d) /\ IsInitialize(e)
        /\ Parsed(d).id # Parsed(e).id
        /\ dispatched[d].resp # 0 /\ dispatched[e].resp # 0
        /\ ResponseOf(e).id = Parsed(e).id

\* C19: in playwright-mcp-server a command that cannot be launched (-2) or
\* that fails (status 2, a failure for every tool) is surfaced as a
\* returned payload with content and the failure flag: the handler's
\* promise is resolved with it, never rejected
C19_HandlerFailureIsReturned ==
    (InvSettledAfterExec /\ inv.outcome \in {2, -2}) =>
        /\ inv.settled.state = "resolved"
        /\ inv.settled.payload.isError
        /\ TextOf(inv.settled.payload) # <<>>

IsMalformedEnvelope(d) ==
    /\ ParsedOk(d)
    /\ \/ Parsed(d).type = "null"
       \/ /\ Parsed(d).method = "tools/call"
          /\ ~Parsed(d).hasParams \/ Parsed(d).name = NoStr

\* C21: a framed line that parses but is no well-formed envelope has one
\* response written for it and nothing escapes: processMessage returns, its
\* promise is not rejected, and the server keeps running
C21_MalformedEnvelopeAnswered ==
    \A d \in DOMAIN dispatched :
        (Framed(d) /\ IsMalformedEnvelope(d)) =>
            /\ dispatched[d].status = "returned"
            /\ dispatched[d].reason = <<>>
            /\ dispatched[d].resp # 0
            /\ Cardinality({e \in DOMAIN dispatched :
                               dispatched[e].resp = dispatched[d].resp}) = 1
            /\ alive

\* C22: the response to a tools/call whose command was spawned is written
\* only after the child's close event or its error event: while the child
\* runs the request is pending and has no response, and the response, once
\* written, ends with the output accumulated up to the event (stdout, or
\* the fixed message, on success; the diagnostic on failure)
C22_ResponseAfterTermination ==
    \A p \in DOMAIN procs :
        LET d == procs[p].disp
        IN  /\ (~procs[p].closed /\ ~procs[p].errored) =>
                   /\ dispatched[d].status = "pending"
                   /\ dispatched[d].resp = 0
                   /\ ResponsesTo(procs[p].id) = {}
            /\ dispatched[d].resp # 0 =>
                   /\ procs[p].closed \/ procs[p].errored
                   /\ procs[p].settled.state # "pending"
                   /\ IF procs[p].settled.state = "resolved"
                      THEN IsSuffix(OrElse(procs[p].output,
                                           <<"Tests completed successfully">>),
                                    TextOf(ResponseOf(d).result[1]))
                      ELSE IsSuffix(Diagnostic(p), TextOf(ResponseOf(d).result[1]))

\* C22 witness: a command wrote to stdout and to stderr, then closed, and
\* its response is on stdout
C22_Witness ==
    \E p \in DOMAIN procs :
        /\ procs[p].closed /\ ~procs[p].errored
        /\ procs[p].output # <<>> /\ procs[p].errorOutput # <<>>
        /\ dispatched[procs[p].disp].resp # 0

OutcomeDeliveredAndWritten(p) ==
    (procs[p].settled.state = "pending" /\ procs'[p].settled.state # "pending") =>
        /\ Len(stdout') > Len(stdout)
        /\ SubSeq(stdout', 1, Len(stdout)) = stdout
        /\ stdout'[Len(stdout) + 1].id = procs[p].id
        /\ dispatched'[procs[p].disp].resp = Len(stdout) + 1

\* C24: among tool invocations in flight at the same time the responses
\* are written in the order in which the invocations complete: the
\* response of an invocation is written in the turn that delivers its
\* outcome, after everything written before and before any other outcome
\* is delivered
C24_WrittenInCompletionOrder ==
    [][\A p \in DOMAIN procs : OutcomeDeliveredAndWritten(p)]_vars

\* C24 witness: two invocations were in flight together and the one
\* started second completed first: its response precedes the other's
C24_Witness ==
    \E p, q \in DOMAIN procs :
        /\ p < q
        /\ dispatched[procs[p].disp].resp # 0
        /\ dispatched[procs[q].disp].resp # 0
        /\ dispatched[procs[q].disp].resp < dispatched[procs[p].disp].resp

\* the requests that have a response
Answered == {d \in DOMAIN dispatched : dispatched[d].resp # 0}

\* C25: each response of the hand-rolled server is one write of the whole
\* serialized object with its newline: under every interleaving of the
\* chunks' listeners, stdout holds one write per answered request, each
\* write is a complete response, and the write of a request carries that
\* request's id
C25_OneWritePerResponse ==
    program = Simple =>
        /\ Len(stdout) = Cardinality(Answered)
        /\ \A i \in DOMAIN stdout : IsJsonRpcResponse(stdout[i])
        /\ \A d \in Answered :
               /\ dispatched[d].resp \in DOMAIN stdout
               /\ IsObject(d) => ResponseOf(d).id = Parsed(d).id
        /\ \A d, e \in Answered : dispatched[d].resp = dispatched[e].resp => d = e

\* C25 witness: the listener of the first chunk was suspended on its
\* command while the listener of the second chunk wrote a response, and
\* wrote its own response after it
C25_Witness ==
    /\ Len(handlers) = 2
    /\ \A h \in DOMAIN handlers : handlers[h].state = "done"
    /\ Len(stdout) = 2
    /\ \E p \in DOMAIN procs :
           procs[p].handler = 1 /\ dispatched[procs[p].disp].resp = 2

\* the line is a valid message: a request of a known method, and of a
\* registered tool when the method is tools/call
IsValidMessage(line) ==
    /\ JSONparse(line).ok
    /\ JSONparse(line).value.type = "object"
    /\ JSONparse(line).value.method \in KnownMethods
    /\ JSONparse(line).value.method = "tools/call" =>
           JSONparse(line).value.name \in RegisteredNames

\* C26: a line that fails does not affect the lines after it in the same
\* chunk: a listener that ended on a failed line has left no valid,
\* newline-terminated message of its chunk undispatched
C26_LaterLinesOfChunkDispatched ==
    \A h \in DOMAIN handlers :
        handlers[h].state = "rejected" =>
            \A i \in 1..(Len(handlers[h].lines) - 1) :
                ~IsValidMessage(handlers[h].lines[i])

====
